---- MODULE Spec2Model ----
(***************************************************************************)
(* Model of kiek's Kafka routing and authorization core (src/src/kafka.rs):*)
(* partition_for_key, topic/partition resolution and assignment, the       *)
(* unknown-topic message, and the OAuth token callback of IamContext.      *)
(*                                                                         *)
(* A &str is the sequence of its bytes.  A u32 is a pair <<hi, lo>> of     *)
(* 16-bit limbs and a usize a record of limbs [w2, w1, w0] with value      *)
(* w2 * 2^32 + w1 * 2^16 + w0, so that the 32-bit wrap-around of the hash  *)
(* and the narrowing of a 64-bit partition count are computed exactly.     *)
(***************************************************************************)
EXTENDS Integers, Sequences, FiniteSets, TLC

VARIABLES
    hkey,       \* partition_for_key: the key of the last call
    hparts,     \* partition_for_key: the partition count of the last call (usize)
    hres,       \* partition_for_key: the outcome of the last call
    mtopic,     \* unknown_topic_message: requested topic of the last call
    mnames,     \* unknown_topic_message: available topics of the last call
    mres,       \* unknown_topic_message: the message produced
    cluster,    \* the broker's topics, in metadata order: <<[name, partitions]>>
    call,       \* the call in progress or just finished
    pc,         \* position of the call: "idle", "unknown_topic", "done"
    result,     \* what the call returned
    assigned,   \* the plan handed to consumer.assign by the call, or NoPlan
    looked_up,  \* num_partitions as fetched by the call
    snapshot,   \* the names of the broker's topics at the call's first fetch_metadata
    feedback,   \* [info, warning]: notices emitted by the call
    selector,   \* number of interactive prompts shown by the call
    rt,         \* the runtime behind Handle::current(): [flavor, drivers]
    tpc,        \* per thread: position inside generate_oauth_token
    worker,     \* per thread: state of the worker thread it spawned
    provider,   \* per thread: how the credential provider behaves for its call
    elapsed     \* per thread: seconds since its worker armed the timeout

hvars == <<hkey, hparts, hres>>
mvars == <<mtopic, mnames, mres>>
avars == <<cluster, call, pc, result, assigned, looked_up, snapshot, feedback, selector>>
tvars == <<rt, tpc, worker, provider, elapsed>>
vars == <<hvars, mvars, avars, tvars>>

----------------------------------------------------------------------------
(* 32-bit arithmetic on limbs *)

Pow2(n) == 2 ^ n

\* Op applied to the value of v: v is evaluated once, before Op reads it
Bind(v, Op(_)) == CHOOSE r \in {Op(w) : w \in {v}} : TRUE

RECURSIVE XorBits(_, _, _)
XorBits(x, y, n) ==
    IF n = 0 THEN 0
    ELSE (((x % 2) + (y % 2)) % 2) + 2 * XorBits(x \div 2, y \div 2, n - 1)

Xor32(x, y) == <<XorBits(x[1], y[1], 16), XorBits(x[2], y[2], 16)>>

\* x >> r, for 0 < r < 32
Shr32(x, r) ==
    IF r >= 16 THEN <<0, x[1] \div Pow2(r - 16)>>
    ELSE <<x[1] \div Pow2(r), (x[2] \div Pow2(r)) + ((x[1] % Pow2(r)) * Pow2(16 - r))>>

\* the full 32-bit product of two 16-bit limbs, as <<hi, lo>>
MulLimbs(x, y) ==
    LET p1 == (x \div 256) * y
        p0 == (x % 256) * y
        s == ((p1 % 256) * 256) + p0
    IN <<(p1 \div 256) + (s \div 65536), s % 65536>>

\* wrapping_mul on u32
Mul32(x, y) ==
    LET ll == MulLimbs(x[2], y[2])
        hl == MulLimbs(x[1], y[2])
        lh == MulLimbs(x[2], y[1])
    IN <<(ll[1] + hl[2] + lh[2]) % 65536, ll[2]>>

\* a u32 from a small number
U32(n) == <<n \div 65536, n % 65536>>

----------------------------------------------------------------------------
(* murmur2 crate: murmur2(data, seed), the 32-bit MurmurHash2 *)

MurmurM == <<23505, 59797>>      \* 0x5bd1e995
KAFKA_SEED == <<38727, 45708>>   \* 0x9747b28c

\* the little-endian u32 at bytes i .. i+3
Le32(data, i) == <<(data[i + 3] * 256) + data[i + 2], (data[i + 1] * 256) + data[i]>>

MixChunk(h, k0) ==
    Bind(Mul32(k0, MurmurM), LAMBDA k1 :
    Bind(Xor32(k1, Shr32(k1, 24)), LAMBDA k2 :
    Bind(Mul32(k2, MurmurM), LAMBDA k3 :
    Bind(Mul32(h, MurmurM), LAMBDA hm : Xor32(hm, k3)))))

RECURSIVE MixChunks(_, _, _)
MixChunks(data, i, h) ==
    IF Len(data) - i + 1 >= 4
    THEN Bind(MixChunk(h, Le32(data, i)), LAMBDA mixed : MixChunks(data, i + 4, mixed))
    ELSE h

MixTail(data, h) ==
    LET rem == Len(data) % 4
        base == Len(data) - rem
    IN Bind(IF rem = 3 THEN Xor32(h, <<data[base + 3], 0>>) ELSE h, LAMBDA h3 :
       Bind(IF rem >= 2 THEN Xor32(h3, <<0, data[base + 2] * 256>>) ELSE h3, LAMBDA h2 :
       IF rem >= 1
       THEN Bind(Xor32(h2, <<0, data[base + 1]>>), LAMBDA h1 : Mul32(h1, MurmurM))
       ELSE h2))

murmur2(data, seed) ==
    Bind(Xor32(seed, U32(Len(data))), LAMBDA h0 :
    Bind(MixChunks(data, 1, h0), LAMBDA hc :
    Bind(MixTail(data, hc), LAMBDA h1 :
    Bind(Xor32(h1, Shr32(h1, 13)), LAMBDA h2 :
    Bind(Mul32(h2, MurmurM), LAMBDA h3 : Xor32(h3, Shr32(h3, 15)))))))

----------------------------------------------------------------------------
(* partition_for_key *)

\* a usize from a small number
USize(n) == [w2 |-> 0, w1 |-> n \div 65536, w0 |-> n % 65536]

\* `partitions as u32`: the low 32 bits
AsU32(n) == <<n.w1, n.w0>>

Panic == [ok |-> FALSE, value |-> 0]
Returned(v) == [ok |-> TRUE, value |-> v]

\* hash % d for a hash below 2^31; a zero divisor panics
Rem32(hash, d) ==
    IF d = <<0, 0>> THEN Panic
    ELSE IF d[1] >= 32768 THEN Returned(hash)
    ELSE Returned(hash % ((d[1] * 65536) + d[2]))

partition_for_key(key, partitions) ==
    Bind(murmur2(key, KAFKA_SEED), LAMBDA hash :
    Bind(((hash[1] % 32768) * 65536) + hash[2],     \* hash & 0x7fffffff
         LAMBDA positive : Rem32(positive, AsU32(partitions))))

\* v < n for a number v below 2^31 and a usize n
BelowUSize(v, n) == n.w2 > 0 \/ n.w1 >= 32768 \/ v < (n.w1 * 65536) + n.w0

----------------------------------------------------------------------------
(* keys and partition counts tried *)

\* "control+e2e-zgddu3j-delete"
Key1 == <<99, 111, 110, 116, 114, 111, 108, 43, 101, 50, 101, 45, 122, 103, 100, 100, 117, 51, 106, 45, 100, 101, 108, 101, 116, 101>>
\* "control+e2e-6n304jn-delete"
Key2 == <<99, 111, 110, 116, 114, 111, 108, 43, 101, 50, 101, 45, 54, 110, 51, 48, 52, 106, 110, 45, 100, 101, 108, 101, 116, 101>>
\* "834408c2-6061-7057-bdc1-320cc24c8873"
Key3 == <<56, 51, 52, 52, 48, 56, 99, 50, 45, 54, 48, 54, 49, 45, 55, 48, 53, 55, 45, 98, 100, 99, 49, 45, 51, 50, 48, 99, 99, 50, 52, 99, 56, 56, 55, 51>>
\* "control+e2e-bgrl0v-delete"
Key4 == <<99, 111, 110, 116, 114, 111, 108, 43, 101, 50, 101, 45, 98, 103, 114, 108, 48, 118, 45, 100, 101, 108, 101, 116, 101>>
\* "control+e2e-5ijyt78-delete"
Key5 == <<99, 111, 110, 116, 114, 111, 108, 43, 101, 50, 101, 45, 53, 105, 106, 121, 116, 55, 56, 45, 100, 101, 108, 101, 116, 101>>
\* "03b40832-b061-703d-4d68-895dee9e1f90"
Key6 == <<48, 51, 98, 52, 48, 56, 51, 50, 45, 98, 48, 54, 49, 45, 55, 48, 51, 100, 45, 52, 100, 54, 56, 45, 56, 57, 53, 100, 101, 101, 57, 101, 49, 102, 57, 48>>
\* "control+e2e-86d8ra-delete"
Key7 == <<99, 111, 110, 116, 114, 111, 108, 43, 101, 50, 101, 45, 56, 54, 100, 56, 114, 97, 45, 100, 101, 108, 101, 116, 101>>
\* "control+e2e-lhwcl2-delete"
Key8 == <<99, 111, 110, 116, 114, 111, 108, 43, 101, 50, 101, 45, 108, 104, 119, 99, 108, 50, 45, 100, 101, 108, 101, 116, 101>>
\* "a", "ab", "abc": keys with a 1-, 2- and 3-byte tail
KeyA == <<97>>
KeyAB == <<97, 98>>
KeyABC == <<97, 98, 99>>

HashKeys == {Key1, Key2, Key3, Key4, Key5, Key6, Key7, Key8, KeyA, KeyAB, KeyABC}

\* partition counts above zero, up to and beyond the 32-bit range
HashCounts ==
    {USize(n) : n \in {1, 2, 3, 4, 6, 65536}}
    \cup {[w2 |-> 0, w1 |-> 32768, w0 |-> 0],        \* 2^31
          [w2 |-> 0, w1 |-> 65535, w0 |-> 65535],    \* 2^32 - 1
          [w2 |-> 1, w1 |-> 0, w0 |-> 0],            \* 2^32
          [w2 |-> 1, w1 |-> 0, w0 |-> 1],            \* 2^32 + 1
          [w2 |-> 1, w1 |-> 0, w0 |-> 6],            \* 2^32 + 6
          [w2 |-> 2, w1 |-> 0, w0 |-> 0]}            \* 2^33

NotCalled == [called |-> FALSE, ok |-> TRUE, value |-> 0]


----------------------------------------------------------------------------
(* levenshtein crate: levenshtein(a, b), the edit distance *)

Min2(x, y) == IF x <= y THEN x ELSE y

\* the row of distances for one more character ca of a, from the previous row
RECURSIVE LevRow(_, _, _, _)
LevRow(prev, ca, b, row) ==
    LET j == Len(row)
    IN IF j = Len(b) + 1 THEN row
       ELSE LET subst == prev[j] + (IF ca = b[j] THEN 0 ELSE 1)
                cell == Min2(Min2(prev[j + 1] + 1, row[j] + 1), subst)
            IN Bind(Append(row, cell), LAMBDA longer : LevRow(prev, ca, b, longer))

RECURSIVE LevRows(_, _, _, _)
LevRows(s1, b, i, prev) ==
    IF i > Len(s1) THEN prev
    ELSE Bind(LevRow(prev, s1[i], b, <<i>>), LAMBDA row : LevRows(s1, b, i + 1, row))

levenshtein(s1, b) ==
    LevRows(s1, b, 1, [j \in 1..(Len(b) + 1) |-> j - 1])[Len(b) + 1]

----------------------------------------------------------------------------
(* unknown_topic_message *)

MAX_DISTANCE == 4
MAX_TOPICS == 15

\* x placed behind every entry that does not compare greater: a stable sort
InsertByDistance(sorted, x) ==
    LET k == Cardinality({i \in 1..Len(sorted) : sorted[i][2] <= x[2]})
    IN SubSeq(sorted, 1, k) \o <<x>> \o SubSeq(sorted, k + 1, Len(sorted))

\* the mutant: equal distances end up in reverse input order
InsertBeforeEqual(sorted, x) ==
    LET k == Cardinality({i \in 1..Len(sorted) : sorted[i][2] < x[2]})
    IN SubSeq(sorted, 1, k) \o <<x>> \o SubSeq(sorted, k + 1, Len(sorted))

RECURSIVE SortFrom(_, _, _)
SortFrom(pairs, i, sorted) ==
    IF i > Len(pairs) THEN sorted
    ELSE Bind(pairs[i], LAMBDA x :
         Bind(InsertByDistance(sorted, x), LAMBDA longer : SortFrom(pairs, i + 1, longer)))

RECURSIVE SortFromUnstable(_, _, _)
SortFromUnstable(pairs, i, sorted) ==
    IF i > Len(pairs) THEN sorted
    ELSE Bind(pairs[i], LAMBDA x :
         Bind(InsertBeforeEqual(sorted, x),
              LAMBDA longer : SortFromUnstable(pairs, i + 1, longer)))

\* the mutant of sort_by_distance
sort_by_distance_unstable(pairs) == SortFromUnstable(pairs, 1, <<>>)

\* similar_topics.sort_by(|a, b| a.1.cmp(&b.1))
sort_by_distance(pairs) == SortFrom(pairs, 1, <<>>)

\* the sorted (topic, distance) pairs
similar_topics(topic, topic_names) ==
    Bind([i \in 1..Len(topic_names) |->
            <<topic_names[i], levenshtein(topic, topic_names[i])>>],
         LAMBDA pairs : sort_by_distance(pairs))

\* iter().take(n)
Take(seq, n) == SubSeq(seq, 1, Min2(n, Len(seq)))

NoTopicsOnBroker(topic) ==
    [form |-> "no_topics", topic |-> topic, similar |-> <<>>, topics |-> <<>>,
     more |-> <<>>]
DidYouMean(topic, similar) ==
    [form |-> "did_you_mean", topic |-> topic, similar |-> similar,
     topics |-> <<>>, more |-> <<>>]
AvailableTopics(topic, topics, more) ==
    [form |-> "available", topic |-> topic, similar |-> <<>>, topics |-> topics,
     more |-> more]

\* the mutant: a topic at distance MAX_DISTANCE is no longer similar
unknown_topic_message_strict(topic, topic_names) ==
    Bind(similar_topics(topic, topic_names), LAMBDA similar :
       IF Len(topic_names) = 0 THEN NoTopicsOnBroker(topic)
       ELSE IF Len(topic_names) = 1 \/ similar[1][2] < MAX_DISTANCE
            THEN DidYouMean(topic, similar[1][1])
            ELSE AvailableTopics(topic,
                    [i \in 1..Len(Take(similar, MAX_TOPICS)) |-> similar[i][1]],
                    IF Len(similar) > MAX_TOPICS
                    THEN <<Len(similar) - MAX_TOPICS>> ELSE <<>>))

\* The message is kept in its parts: the form of the sentence, the requested
\* topic, the suggested topic, the listed topics (one " - t" line each) and
\* the count of the "...N more" suffix (<<>> when the suffix is empty).
unknown_topic_message(topic, topic_names) ==
    Bind(similar_topics(topic, topic_names), LAMBDA similar :
       IF Len(topic_names) = 0 THEN NoTopicsOnBroker(topic)
       ELSE IF Len(topic_names) = 1 \/ similar[1][2] <= MAX_DISTANCE
            THEN DidYouMean(topic, similar[1][1])
            ELSE AvailableTopics(topic,
                    [i \in 1..Len(Take(similar, MAX_TOPICS)) |-> similar[i][1]],
                    IF Len(similar) > MAX_TOPICS
                    THEN <<Len(similar) - MAX_TOPICS>> ELSE <<>>))

----------------------------------------------------------------------------
(* topics tried for the message *)

MaxNames == 17   \* longest list of available topics

\* "topic", "topik", "something-totally-different"
Topic_topic == <<116, 111, 112, 105, 99>>
Topic_topik == <<116, 111, 112, 105, 107>>
Topic_different == <<115, 111, 109, 101, 116, 104, 105, 110, 103, 45, 116, 111, 116, 97, 108, 108, 121, 45, 100, 105, 102, 102, 101, 114, 101, 110, 116>>
\* "abcdefg", "abcdefgh", "abcdefghi"
Topic_abcdefg == <<97, 98, 99, 100, 101, 102, 103>>
Topic_abcdefgh == <<97, 98, 99, 100, 101, 102, 103, 104>>
Topic_abcdefghi == <<97, 98, 99, 100, 101, 102, 103, 104, 105>>
\* "cxx"
Topic_cxx == <<99, 120, 120>>

\* the i-th topic of the broker: a letter followed by 5, 6 or 7 times "x"
PoolName(i) == [j \in 1..(6 + (i % 3)) |-> IF j = 1 THEN 97 + i ELSE 120]

Reverse(seq) == [i \in 1..Len(seq) |-> seq[Len(seq) + 1 - i]]

\* topics lo..hi of the broker
Window(lo, hi) == [i \in 1..(hi - lo + 1) |-> PoolName(lo + i - 1)]

\* the lists of test_non_existing_topic_errors
TestLists ==
    {<<>>, <<Topic_topic>>, <<Topic_topic, Topic_different>>,
     <<Topic_abcdefghi, Topic_abcdefgh, Topic_abcdefg>>,
     <<Topic_abcdefg, Topic_abcdefgh, Topic_abcdefghi>>}

RequestedTopics == {Topic_topic, Topic_topik, Topic_abcdefg, Topic_cxx}

NoMessage ==
    [form |-> "none", topic |-> <<>>, similar |-> <<>>, topics |-> <<>>,
     more |-> <<>>]

----------------------------------------------------------------------------
(* the broker and the values of the resolution and assignment calls *)

MaxPartitions == 2   \* most partitions a topic of the broker has

\* "t", "orders", "payments"
Name_t == <<116>>
Name_orders == <<111, 114, 100, 101, 114, 115>>
Name_payments == <<112, 97, 121, 109, 101, 110, 116, 115>>

\* the topics named by calls, and those among them the broker may have
TopicNames == {Name_t, Name_orders, Name_payments}
BrokerTopics == {Name_t, Name_orders}
SearchKeys == {KeyA, Key1}

\* TopicOrPartition
Topic(name) == [kind |-> "Topic", topic |-> name, partition |-> 0]
TopicPartition(name, p) == [kind |-> "TopicPartition", topic |-> name, partition |-> p]
Targets ==
    {Topic(n) : n \in TopicNames}
    \cup {TopicPartition(n, p) : n \in TopicNames, p \in 0..(MaxPartitions + 1)}

\* StartOffset
Earliest == [kind |-> "Earliest", n |-> 0]
Latest(n) == [kind |-> "Latest", n |-> n]
StartOffsets == {Earliest, Latest(0), Latest(5)}

offset_for(start_offset) ==
    IF start_offset.kind = "Earliest" THEN [kind |-> "Beginning", n |-> 0]
    ELSE IF start_offset.n = 0 THEN [kind |-> "End", n |-> 0]
    ELSE [kind |-> "OffsetTail", n |-> start_offset.n]

\* consumer.fetch_metadata(None, TIMEOUT): every topic of the broker
FetchAll(cl) == cl

\* consumer.fetch_metadata(Some(topic), TIMEOUT): the topic's entry; for a topic
\* the broker does not have, an entry without partitions
FetchTopic(cl, topic) ==
    IF \E i \in 1..Len(cl) : cl[i].name = topic
    THEN SelectSeq(cl, LAMBDA e : e.name = topic)
    ELSE <<[name |-> topic, partitions |-> 0]>>

\* metadata.topics().iter().map(|t| t.name().to_string()).collect()
NamesOf(md) == [i \in 1..Len(md) |-> md[i].name]

NoPlan == [called |-> FALSE, plan |-> {}]
Plan(entries) == [called |-> TRUE, plan |-> entries]

NoTarget == [kind |-> "none", topic |-> <<>>, partition |-> 0]
NoResult == [status |-> "none", error |-> "", message |-> NoMessage, value |-> NoTarget]
Ok == [status |-> "ok", error |-> "", message |-> NoMessage, value |-> NoTarget]
OkTarget(v) == [status |-> "ok", error |-> "", message |-> NoMessage, value |-> v]
Err(kind) == [status |-> "err", error |-> kind, message |-> NoMessage, value |-> NoTarget]
ErrMessage(kind, m) == [status |-> "err", error |-> kind, message |-> m, value |-> NoTarget]
Panicked == [status |-> "panic", error |-> "", message |-> NoMessage, value |-> NoTarget]

NoCall ==
    [op |-> "none", target |-> NoTarget, key |-> <<>>, start_offset |-> Earliest,
     silent |-> FALSE]

----------------------------------------------------------------------------
(* fetch_number_of_partitions, up to its call of unknown_topic *)

\* <<n>> for a topic with n > 0 partitions, <<>> when unknown_topic is called
first_fetch(cl, topic) ==
    LET md == FetchTopic(cl, topic)
    IN IF Len(md) > 0 /\ md[1].partitions > 0 THEN <<md[1].partitions>> ELSE <<>>

\* unknown_topic: a second fetch, of all topics, and the message built from it
unknown_topic(cl, topic) ==
    ErrMessage("unknown_topic", unknown_topic_message(topic, NamesOf(FetchAll(cl))))

----------------------------------------------------------------------------
(* assign_topic_or_partition, once num_partitions is known *)

\* if *partition > num_partitions { return Err(..) }
partition_rejected(partition, num_partitions) == partition > num_partitions

\* [result, plan]
assign_topic_or_partition(target, start_offset, num_partitions) ==
    LET offset == offset_for(start_offset)
    IN IF target.kind = "Topic"
       THEN [result |-> Ok,
             plan |-> Plan({[topic |-> target.topic, partition |-> q, offset |-> offset] :
                               q \in 0..(num_partitions - 1)})]
       ELSE IF partition_rejected(target.partition, num_partitions)
            THEN [result |-> Err("partition_out_of_range"), plan |-> NoPlan]
            ELSE [result |-> Ok,
                  plan |-> Plan({[topic |-> target.topic, partition |-> target.partition,
                                  offset |-> offset]})]

----------------------------------------------------------------------------
(* assign_partition_for_key, once num_partitions is known *)

Warning(expected, configured) ==
    [level |-> "warning", topic |-> <<>>, expected |-> expected, configured |-> configured]
Info(name) == [level |-> "info", topic |-> name, expected |-> 0, configured |-> 0]

\* the mutant: the computed partition is used whatever the user configured
match_partition_computed(target, partition) ==
    IF target.kind = "Topic" THEN [partition |-> partition, feedback |-> <<>>]
    ELSE [partition |-> partition,
          feedback |-> IF partition # target.partition
                       THEN <<Warning(partition, target.partition)>> ELSE <<>>]

\* the match on topic_or_partition: [partition, feedback]
match_partition(target, partition) ==
    IF target.kind = "Topic" THEN [partition |-> partition, feedback |-> <<>>]
    ELSE [partition |-> target.partition,
          feedback |-> IF partition # target.partition
                       THEN <<Warning(partition, target.partition)>> ELSE <<>>]

\* [result, plan, feedback]
assign_partition_for_key(target, key, start_offset, num_partitions) ==
    LET computed == partition_for_key(key, USize(num_partitions))
    IN IF ~computed.ok
       THEN [result |-> Panicked, plan |-> NoPlan, feedback |-> <<>>]
       ELSE LET m == match_partition(target, computed.value)
            IN [result |-> Ok,
                plan |-> Plan({[topic |-> target.topic, partition |-> m.partition,
                                offset |-> offset_for(start_offset)]}),
                feedback |-> m.feedback]

----------------------------------------------------------------------------
(* select_topic_or_partition and prompt_topic_or_partition *)

Cancelled == 0 - 1   \* Select::interact() failed: unwrap() panics

\* selection is the index picked in the list of topics, choice the index
\* picked in the list "<topic> (all partitions)", "<topic>-0", ...
\* [result, prompts]
prompt_topic_or_partition(md, selection, choice) ==
    IF selection = Cancelled THEN [result |-> Panicked, prompts |-> 1]
    ELSE IF choice = Cancelled THEN [result |-> Panicked, prompts |-> 2]
    ELSE LET topic == NamesOf(md)[selection + 1]
             partition == choice - 1
         IN [result |-> IF partition = 0 - 1 THEN OkTarget(Topic(topic))
                        ELSE OkTarget(TopicPartition(topic, partition)),
             prompts |-> 2]

\* the mutant: silent mode is tested before the number of topics
select_topic_or_partition_silent_first(md, silent, selection, choice) ==
    LET topic_names == NamesOf(md)
    IN IF Len(topic_names) = 0
       THEN [result |-> Err("no_topics"), feedback |-> <<>>, prompts |-> 0]
       ELSE IF silent
       THEN [result |-> Err("ambiguous"), feedback |-> <<>>, prompts |-> 0]
       ELSE IF Len(topic_names) = 1
       THEN [result |-> OkTarget(Topic(topic_names[1])),
             feedback |-> <<Info(topic_names[1])>>, prompts |-> 0]
       ELSE LET r == prompt_topic_or_partition(md, selection, choice)
            IN [result |-> r.result, feedback |-> <<>>, prompts |-> r.prompts]

\* [result, feedback, prompts]
select_topic_or_partition(md, silent, selection, choice) ==
    LET topic_names == NamesOf(md)
    IN IF Len(topic_names) = 0
       THEN [result |-> Err("no_topics"), feedback |-> <<>>, prompts |-> 0]
       ELSE IF Len(topic_names) = 1
       THEN [result |-> OkTarget(Topic(topic_names[1])),
             feedback |-> <<Info(topic_names[1])>>, prompts |-> 0]
       ELSE IF silent
       THEN [result |-> Err("ambiguous"), feedback |-> <<>>, prompts |-> 0]
       ELSE LET r == prompt_topic_or_partition(md, selection, choice)
            IN [result |-> r.result, feedback |-> <<>>, prompts |-> r.prompts]

----------------------------------------------------------------------------
(* IamContext::generate_oauth_token *)

TIMEOUT == 10        \* seconds
MaxRtThreads == 2    \* most threads the runtime has

\* Thread 0 belongs to the engine; the others may belong to the runtime.
Threads == 0..MaxRtThreads

\* The runtime create_msk_consumer captured with Handle::current().  Its
\* drivers are the threads that turn its IO and timer driver: the thread inside
\* Runtime::block_on for a current_thread runtime, the worker threads for a
\* multi_thread runtime.  Handle::block_on, on the spawned thread, turns neither.
Runtimes ==
    {[flavor |-> "current_thread", drivers |-> {1}]}
    \cup {[flavor |-> "multi_thread", drivers |-> 1..w] : w \in 1..MaxRtThreads}

\* generate_auth_token_from_credentials_provider, as seen by the future that
\* awaits it: ready at the first poll, ready after network IO, or never ready
ProviderBehaviours == {"ready_ok", "ready_err", "io_ok", "io_err", "hang"}

\* a driver thread that is not blocked in a join can turn the driver
CanTurnDriver(d) == d \in rt.drivers /\ tpc[d] # "join"

\* the worker's first poll of timeout(TIMEOUT, future)
first_poll(behaviour) ==
    IF behaviour = "ready_ok" THEN "done_ok"
    ELSE IF behaviour = "ready_err" THEN "done_err"
    ELSE "parked"

\* the poll of a woken worker: the inner future first, then the deadline
woken_poll(behaviour, seconds) ==
    IF behaviour = "io_ok" THEN "done_ok"
    ELSE IF behaviour = "io_err" THEN "done_err"
    ELSE IF seconds >= TIMEOUT THEN "done_elapsed"
    ELSE "parked"

\* handle.join().unwrap()??
join_result(finished) ==
    IF finished = "done_ok" THEN "ok"
    ELSE IF finished = "done_elapsed" THEN "timeout"
    ELSE "failed"

----------------------------------------------------------------------------
(* the states of the parts a specification leaves alone *)

HashIdle == hkey = <<>> /\ hparts = USize(1) /\ hres = NotCalled
MsgIdle == mtopic = <<>> /\ mnames = <<>> /\ mres = NoMessage
AssignIdle ==
    /\ cluster = <<>> /\ call = NoCall /\ pc = "idle" /\ result = NoResult
    /\ assigned = NoPlan /\ looked_up = <<>> /\ snapshot = <<>>
    /\ feedback = <<>> /\ selector = 0
TokenIdle ==
    /\ rt = [flavor |-> "current_thread", drivers |-> {1}]
    /\ tpc = [t \in Threads |-> "idle"]
    /\ worker = [t \in Threads |-> "none"]
    /\ provider = [t \in Threads |-> "none"]
    /\ elapsed = [t \in Threads |-> 0]

----------------------------------------------------------------------------
(* Spec: resolution and assignment against a broker whose topics change *)

Init == HashIdle /\ MsgIdle /\ AssignIdle /\ TokenIdle

HasTopic(name) == \E i \in 1..Len(cluster) : cluster[i].name = name

CreateTopic(name, parts) ==
    /\ pc # "done"
    /\ ~HasTopic(name)
    /\ cluster' = Append(cluster, [name |-> name, partitions |-> parts])
    /\ UNCHANGED <<call, pc, result, assigned, looked_up, snapshot, feedback, selector>>
    /\ UNCHANGED <<hvars, mvars, tvars>>

DeleteTopic(i) ==
    /\ pc # "done"
    /\ cluster' = SubSeq(cluster, 1, i - 1) \o SubSeq(cluster, i + 1, Len(cluster))
    /\ UNCHANGED <<call, pc, result, assigned, looked_up, snapshot, feedback, selector>>
    /\ UNCHANGED <<hvars, mvars, tvars>>

CreatePartitions(i) ==
    /\ pc # "done"
    /\ cluster[i].partitions < MaxPartitions
    /\ cluster' = [cluster EXCEPT ![i].partitions = @ + 1]
    /\ UNCHANGED <<call, pc, result, assigned, looked_up, snapshot, feedback, selector>>
    /\ UNCHANGED <<hvars, mvars, tvars>>

\* assign_topic_or_partition, to its return or to its call of unknown_topic
AssignTopicOrPartition(target, start_offset) ==
    /\ pc = "idle"
    /\ call' = [op |-> "assign_topic_or_partition", target |-> target, key |-> <<>>,
                start_offset |-> start_offset, silent |-> FALSE]
    /\ LET num_partitions == first_fetch(cluster, target.topic)
       IN IF num_partitions = <<>>
          THEN pc' = "unknown_topic" /\ UNCHANGED <<result, assigned, looked_up>>
          ELSE LET out == assign_topic_or_partition(target, start_offset, num_partitions[1])
               IN /\ pc' = "done"
                  /\ looked_up' = num_partitions
                  /\ result' = out.result
                  /\ assigned' = out.plan
    /\ snapshot' = NamesOf(cluster)
    /\ UNCHANGED <<cluster, feedback, selector>>
    /\ UNCHANGED <<hvars, mvars, tvars>>

\* assign_partition_for_key, to its return or to its call of unknown_topic
AssignPartitionForKey(target, key, start_offset) ==
    /\ pc = "idle"
    /\ call' = [op |-> "assign_partition_for_key", target |-> target, key |-> key,
                start_offset |-> start_offset, silent |-> FALSE]
    /\ LET num_partitions == first_fetch(cluster, target.topic)
       IN IF num_partitions = <<>>
          THEN pc' = "unknown_topic" /\ UNCHANGED <<result, assigned, looked_up, feedback>>
          ELSE LET out == assign_partition_for_key(target, key, start_offset,
                                                   num_partitions[1])
               IN /\ pc' = "done"
                  /\ looked_up' = num_partitions
                  /\ result' = out.result
                  /\ assigned' = out.plan
                  /\ feedback' = out.feedback
    /\ snapshot' = NamesOf(cluster)
    /\ UNCHANGED <<cluster, selector>>
    /\ UNCHANGED <<hvars, mvars, tvars>>

\* unknown_topic, called by fetch_number_of_partitions: the call fails with the message
UnknownTopic ==
    /\ pc = "unknown_topic"
    /\ result' = unknown_topic(cluster, call.target.topic)
    /\ pc' = "done"
    /\ UNCHANGED <<cluster, call, assigned, looked_up, snapshot, feedback, selector>>
    /\ UNCHANGED <<hvars, mvars, tvars>>

\* what the user can answer to the prompts the call shows
Selections(md, silent) ==
    IF Len(md) >= 2 /\ ~silent THEN {Cancelled} \cup (0..(Len(md) - 1)) ELSE {0}
Choices(md, silent, selection) ==
    IF Len(md) >= 2 /\ ~silent /\ selection # Cancelled
    THEN {Cancelled} \cup (0..md[selection + 1].partitions) ELSE {0}

SelectTopicOrPartition(silent) ==
    /\ pc = "idle"
    /\ call' = [op |-> "select_topic_or_partition", target |-> NoTarget, key |-> <<>>,
                start_offset |-> Earliest, silent |-> silent]
    /\ LET md == FetchAll(cluster)
       IN \E selection \in Selections(md, silent) :
          \E choice \in Choices(md, silent, selection) :
             LET out == select_topic_or_partition(md, silent, selection, choice)
             IN /\ result' = out.result
                /\ feedback' = out.feedback
                /\ selector' = out.prompts
    /\ pc' = "done"
    /\ snapshot' = NamesOf(cluster)
    /\ UNCHANGED <<cluster, assigned, looked_up>>
    /\ UNCHANGED <<hvars, mvars, tvars>>

\* consumer.fetch_metadata(..)? fails: the first fetch of a call, or the fetch
\* of unknown_topic
FetchMetadataFails ==
    /\ \/ pc = "unknown_topic" /\ UNCHANGED call
       \/ /\ pc = "idle"
          /\ \E op \in {"assign_topic_or_partition", "assign_partition_for_key",
                        "select_topic_or_partition"} :
                call' = [NoCall EXCEPT !.op = op]
    /\ result' = Err("fetch_metadata")
    /\ pc' = "done"
    /\ UNCHANGED <<cluster, assigned, looked_up, snapshot, feedback, selector>>
    /\ UNCHANGED <<hvars, mvars, tvars>>

\* the caller has the result; the next call starts afresh
Return ==
    /\ pc = "done"
    /\ call' = NoCall /\ pc' = "idle" /\ result' = NoResult /\ assigned' = NoPlan
    /\ looked_up' = <<>> /\ snapshot' = <<>> /\ feedback' = <<>> /\ selector' = 0
    /\ UNCHANGED cluster
    /\ UNCHANGED <<hvars, mvars, tvars>>

Next ==
    \/ \E name \in BrokerTopics, parts \in 0..MaxPartitions : CreateTopic(name, parts)
    \/ \E i \in 1..Len(cluster) : DeleteTopic(i)
    \/ \E i \in 1..Len(cluster) : CreatePartitions(i)
    \/ \E target \in Targets, start_offset \in StartOffsets :
          AssignTopicOrPartition(target, start_offset)
    \/ \E target \in Targets, key \in SearchKeys, start_offset \in StartOffsets :
          AssignPartitionForKey(target, key, start_offset)
    \/ UnknownTopic
    \/ \E silent \in BOOLEAN : SelectTopicOrPartition(silent)
    \/ FetchMetadataFails
    \/ Return

Spec == Init /\ [][Next]_vars

----------------------------------------------------------------------------
(* HashSpec: partition_for_key on the keys and counts above *)

HashCall(key, partitions) ==
    /\ ~hres.called
    /\ hkey' = key
    /\ hparts' = partitions
    /\ hres' = [called |-> TRUE] @@ partition_for_key(key, partitions)
    /\ UNCHANGED <<mvars, avars, tvars>>

\* the caller has the partition; the next call starts afresh
HashReturn ==
    /\ hres.called
    /\ hkey' = <<>> /\ hparts' = USize(1) /\ hres' = NotCalled
    /\ UNCHANGED <<mvars, avars, tvars>>

HashNext ==
    \/ \E key \in HashKeys, partitions \in HashCounts : HashCall(key, partitions)
    \/ HashReturn

HashSpec == Init /\ [][HashNext]_vars

----------------------------------------------------------------------------
(* MsgSpec: unknown_topic_message on the topics and lists above *)

Suggest(topic, topic_names) ==
    /\ mres = NoMessage
    /\ mtopic' = topic
    /\ mnames' = topic_names
    /\ mres' = unknown_topic_message(topic, topic_names)
    /\ UNCHANGED <<hvars, avars, tvars>>

MsgLists ==
    TestLists
    \cup {Window(lo, hi) : lo \in 1..MaxNames, hi \in 1..MaxNames}
    \cup {Reverse(Window(lo, hi)) : lo \in 1..MaxNames, hi \in 1..MaxNames}

\* the caller has the message; the next call starts afresh
MsgReturn ==
    /\ mres # NoMessage
    /\ mtopic' = <<>> /\ mnames' = <<>> /\ mres' = NoMessage
    /\ UNCHANGED <<hvars, avars, tvars>>

MsgNext ==
    \/ \E topic \in RequestedTopics, topic_names \in MsgLists :
          Suggest(topic, topic_names)
    \/ MsgReturn

MsgSpec == Init /\ [][MsgNext]_vars

----------------------------------------------------------------------------
(* TokenSpec: generate_oauth_token called by the engine from any thread *)

TokenInit ==
    /\ HashIdle /\ MsgIdle /\ AssignIdle
    /\ rt \in Runtimes
    /\ tpc = [t \in Threads |-> "idle"]
    /\ worker = [t \in Threads |-> "none"]
    /\ provider = [t \in Threads |-> "none"]
    /\ elapsed = [t \in Threads |-> 0]

\* the engine calls generate_oauth_token on thread t: the notice is emitted, the
\* worker is spawned and polls the future once, the caller blocks in join
GenerateOauthToken(t, behaviour) ==
    /\ tpc[t] = "idle"
    /\ tpc' = [tpc EXCEPT ![t] = "join"]
    /\ provider' = [provider EXCEPT ![t] = behaviour]
    /\ worker' = [worker EXCEPT ![t] = first_poll(behaviour)]
    /\ elapsed' = [elapsed EXCEPT ![t] = 0]
    /\ UNCHANGED rt
    /\ UNCHANGED <<hvars, mvars, avars>>

\* a second passes for every armed timeout
Tick ==
    /\ \E t \in Threads : worker[t] = "parked" /\ elapsed[t] < TIMEOUT
    /\ elapsed' = [t \in Threads |->
                     IF worker[t] = "parked" /\ elapsed[t] < TIMEOUT
                     THEN elapsed[t] + 1 ELSE elapsed[t]]
    /\ UNCHANGED <<rt, tpc, worker, provider>>
    /\ UNCHANGED <<hvars, mvars, avars>>

\* driver thread d turns the driver: the IO event or the expired timer of the
\* future of t's worker wakes that worker, which polls again
DriverWake(d, t) ==
    /\ CanTurnDriver(d)
    /\ worker[t] = "parked"
    /\ provider[t] \in {"io_ok", "io_err"} \/ elapsed[t] >= TIMEOUT
    /\ worker' = [worker EXCEPT ![t] = woken_poll(provider[t], elapsed[t])]
    /\ UNCHANGED <<rt, tpc, provider, elapsed>>
    /\ UNCHANGED <<hvars, mvars, avars>>

\* the worker has finished and its thread ends: join returns and
\* generate_oauth_token with it
Join(t) ==
    /\ tpc[t] = "join"
    /\ worker[t] \in {"done_ok", "done_err", "done_elapsed"}
    /\ tpc' = [tpc EXCEPT ![t] = join_result(worker[t])]
    /\ worker' = [worker EXCEPT ![t] = "none"]
    /\ provider' = [provider EXCEPT ![t] = "none"]
    /\ elapsed' = [elapsed EXCEPT ![t] = 0]
    /\ UNCHANGED rt
    /\ UNCHANGED <<hvars, mvars, avars>>

\* the engine has the token or the error; the thread is free again
TokenReturn(t) ==
    /\ tpc[t] \in {"ok", "timeout", "failed"}
    /\ tpc' = [tpc EXCEPT ![t] = "idle"]
    /\ UNCHANGED <<rt, worker, provider, elapsed>>
    /\ UNCHANGED <<hvars, mvars, avars>>

TokenNext ==
    \/ \E t \in Threads, behaviour \in ProviderBehaviours : GenerateOauthToken(t, behaviour)
    \/ Tick
    \/ \E d \in Threads, t \in Threads : DriverWake(d, t)
    \/ \E t \in Threads : Join(t)
    \/ \E t \in Threads : TokenReturn(t)

TokenSpec == TokenInit /\ [][TokenNext]_vars

\* Time passes, a driver thread that is free turns the driver, and a thread
\* whose worker has finished returns from join.  Nothing obliges the
\* credential provider to answer.
TokenFairSpec ==
    /\ TokenSpec
    /\ WF_vars(Tick)
    /\ \A t \in Threads : WF_vars(\E d \in Threads : DriverWake(d, t))
    /\ \A t \in Threads : WF_vars(Join(t))

----------------------------------------------------------------------------
(* Properties of assign_topic_or_partition and assign_partition_for_key *)

Done(op) == pc = "done" /\ call.op = op

\* C1: for an explicit TopicPartition(name, idx) on a topic with N > 0
\* partitions, assign_topic_or_partition fails with the out-of-range error
\* whenever idx >= N, idx = N included, and calls assign only when idx < N.
C1_ExplicitPartitionChecked ==
    (/\ Done("assign_topic_or_partition")
     /\ call.target.kind = "TopicPartition"
     /\ looked_up # <<>>)
    => IF call.target.partition >= looked_up[1]
       THEN result = Err("partition_out_of_range") /\ ~assigned.called
       ELSE result = Ok /\ assigned.called

\* C2: every plan handed to assign, by assign_topic_or_partition or by
\* assign_partition_for_key, holds only entries (topic, p) with 0 <= p < the
\* partition count looked up for the topic in the same call.
C2_PlanWithinLookedUpCount ==
    assigned.called
    => /\ looked_up # <<>>
       /\ \A e \in assigned.plan :
             e.topic = call.target.topic /\ 0 <= e.partition /\ e.partition < looked_up[1]

\* C9: assign_partition_for_key assigns a plan of exactly one entry: for
\* Topic(name) the partition partition_for_key computes from the looked-up
\* count, for TopicPartition(name, p) the pinned p; the warning is emitted
\* exactly when the computed partition differs from p, and the call succeeds.
C9_KeyPlanIsPinnedOrComputed ==
    (Done("assign_partition_for_key") /\ looked_up # <<>>)
    => LET computed == partition_for_key(call.key, USize(looked_up[1])).value
           pinned == call.target.kind = "TopicPartition"
           chosen == IF pinned THEN call.target.partition ELSE computed
       IN /\ result = Ok
          /\ assigned = Plan({[topic |-> call.target.topic, partition |-> chosen,
                               offset |-> offset_for(call.start_offset)]})
          /\ feedback = IF pinned /\ computed # call.target.partition
                        THEN <<Warning(computed, call.target.partition)>>
                        ELSE <<>>

\* a key was searched in a pinned partition other than the computed one
C9_Witness ==
    /\ Done("assign_partition_for_key")
    /\ call.target.kind = "TopicPartition"
    /\ assigned.called
    /\ Len(feedback) = 1
    /\ \E e \in assigned.plan : e.partition = call.target.partition

\* C10: within one call the decision that the topic is unknown and the list
\* of topics in the error come from the same snapshot of the broker, so that
\* the error never reports the requested topic, absent at that decision, as
\* an available topic or as the suggestion.
C10_ErrorFromOneSnapshot ==
    (pc = "done" /\ result.error = "unknown_topic")
    => /\ result.message = unknown_topic_message(call.target.topic, snapshot)
       /\ (\A i \in 1..Len(snapshot) : snapshot[i] # call.target.topic)
          => /\ result.message.similar # call.target.topic
             /\ \A i \in 1..Len(result.message.topics) :
                   result.message.topics[i] # call.target.topic

----------------------------------------------------------------------------
(* Properties of select_topic_or_partition *)

\* C7: without a hint, zero topics fail with the no-topics error; one topic
\* returns Topic(name) with the notice and without a prompt, silent or not;
\* several topics in silent mode fail with the ambiguous-selection error
\* without a prompt; a prompt is shown only for several topics in
\* interactive mode.
C7_SelectionByCountAndMode ==
    (Done("select_topic_or_partition") /\ result # Err("fetch_metadata"))
    => LET n == Len(cluster)
       IN /\ n = 0 => result = Err("no_topics") /\ selector = 0 /\ feedback = <<>>
          /\ n = 1 => /\ result = OkTarget(Topic(cluster[1].name))
                      /\ feedback = <<Info(cluster[1].name)>>
                      /\ selector = 0
          /\ (n >= 2 /\ call.silent) => result = Err("ambiguous") /\ selector = 0
          /\ selector > 0 => (n >= 2 /\ ~call.silent)

\* the only topic was chosen in silent mode, without a prompt
C7_Witness ==
    /\ Done("select_topic_or_partition")
    /\ Len(cluster) = 1
    /\ call.silent
    /\ result.status = "ok"
    /\ selector = 0

----------------------------------------------------------------------------
(* Properties of partition_for_key *)

\* C8: for every key and every partition count N > 0 of a usize,
\* partition_for_key(key, N) returns, without failing, a value in [0, N);
\* N >= 2^32 included.
C8_PartitionInRange ==
    hres.called => hres.ok /\ 0 <= hres.value /\ BelowUSize(hres.value, hparts)

----------------------------------------------------------------------------
(* Properties of unknown_topic_message *)

\* the distances of the available topics, in their order
Distances(topic, names) == [i \in 1..Len(names) |-> levenshtein(topic, names[i])] \o <<>>

SeqMin(ds) == CHOOSE d \in {ds[i] : i \in 1..Len(ds)} : \A i \in 1..Len(ds) : d <= ds[i]

\* C5: no available topic gives the "no topics on the broker" message; one
\* topic, or a smallest distance of at most 4, gives "Did you mean X?" with
\* X a topic at the smallest distance; anything else gives the listing.
C5_MessageFormPolicy ==
    mres # NoMessage
    => Bind(Distances(mtopic, mnames), LAMBDA ds :
         IF Len(mnames) = 0 THEN mres.form = "no_topics"
         ELSE IF Len(mnames) = 1 \/ SeqMin(ds) <= 4
         THEN /\ mres.form = "did_you_mean"
              /\ \E i \in 1..Len(mnames) : mnames[i] = mres.similar /\ ds[i] = SeqMin(ds)
         ELSE mres.form = "available")

\* one of several topics is suggested at distance 4, the largest that counts
C5_Witness ==
    /\ mres.form = "did_you_mean"
    /\ Len(mnames) >= 2
    /\ levenshtein(mtopic, mres.similar) = 4

\* C6: the listing holds the first min(15, n) of the n available topics in
\* ascending distance, topics of equal distance in their input order, and
\* the "...N more" suffix exactly when n > 15, with N = n - 15.
C6_ListingRankedAndTruncated ==
    mres.form = "available"
    => Bind(Distances(mtopic, mnames), LAMBDA ds :
         LET n == Len(mnames)
             listed == mres.topics
             \* where the i-th listed topic stands in the input
             At(i) == CHOOSE k \in 1..n : mnames[k] = listed[i]
             Before(k, l) == ds[k] < ds[l] \/ (ds[k] = ds[l] /\ k < l)
         IN /\ Len(listed) = IF n < 15 THEN n ELSE 15
            /\ \A i \in 1..Len(listed) : \E k \in 1..n : mnames[k] = listed[i]
            /\ \A i, j \in 1..Len(listed) : i < j => Before(At(i), At(j))
            /\ \A k \in 1..n :
                  (\A i \in 1..Len(listed) : listed[i] # mnames[k])
                  => \A i \in 1..Len(listed) : Before(At(i), k)
            /\ mres.more = IF n > 15 THEN <<n - 15>> ELSE <<>>)

\* more than 15 topics are available: the listing is cut and two of the
\* listed topics are equally distant
C6_Witness ==
    /\ mres.form = "available"
    /\ Len(mnames) > 15
    /\ mres.more = <<Len(mnames) - 15>>
    /\ \E i, j \in 1..Len(mres.topics) :
          /\ i < j
          /\ levenshtein(mtopic, mres.topics[i]) = levenshtein(mtopic, mres.topics[j])

----------------------------------------------------------------------------
(* Properties of generate_oauth_token *)

\* C3: when the credential provider never completes, every call of
\* generate_oauth_token returns with the timeout failure once the deadline
\* has passed; the caller is not blocked for ever.
C3_HangingFetchTimesOut ==
    \A t \in Threads : (tpc[t] = "join" /\ provider[t] = "hang") ~> (tpc[t] = "timeout")

\* C4: whichever thread calls generate_oauth_token, a driver of the runtime
\* included, the worker's future still makes progress while the caller is
\* blocked in join: callers and workers never wait on each other.
C4_NoCircularWait ==
    ~ \E t \in Threads :
         /\ tpc[t] = "join" /\ worker[t] = "parked"
         /\ \A d \in rt.drivers : tpc[d] = "join" /\ worker[d] = "parked"

====
